---- MODULE Spec2Model ----
(***************************************************************************)
(* The LRU inference-session cache of yolo-inference-backend               *)
(* (src/src/utils/tools_lru.py, class InferenceSessionsWithLRU) and its    *)
(* consumer DetectionService.run_inference, as a state machine.            *)
(*                                                                         *)
(* The cache is one shared object with no lock.  Request handlers are the  *)
(* workers of Threads; every statement of a handler that reads or writes   *)
(* the shared object is one step of the worker, so that every interleaving *)
(* of concurrent callers is a behaviour of Spec.  SpecSeq is the same      *)
(* program with callers that never overlap (one call at a time).           *)
(*                                                                         *)
(* get_current_memory_mb() reads the resident set size of the process; the *)
(* cache does not control it, so every sample is any value of MemLevels.   *)
(* A YOLO session is represented by the id it was built for: the cache     *)
(* holds at most one session per key.                                      *)
(*                                                                         *)
(* SpecSeqFair is SpecSeq with handlers that run on.  SpecCatalog is the   *)
(* catalog load of startup (load_models, Models.load_models_info) over the *)
(* contents and enumeration orders of a base path, and SpecDescriptor the  *)
(* load of one labels.yaml (ModelInfo.load_model_info_from_yaml).          *)
(***************************************************************************)
EXTENDS Integers, Sequences, FiniteSets, TLC

\* ---------------------------------------------------------------- configuration
\* InferenceSessionsWithLRU(max_memory_mb=500, ...)
MaxMemoryMB == 500
\* InferenceSessionsWithLRU(..., memory_check_interval=2)
MemoryCheckInterval == 2

\* ---------------------------------------------------------------- bounds
\* get_session calls are started only while request_count is below this
MaxRequests == 2

\* the request-handling workers
Threads == {"w1", "w2"}
\* the worker whose get_session calls the history variables follow
Observer == "w1"
\* ids with a descriptor in self.models.models ("0", "1")
ModelIds == {0, 1}
\* ids callers ask for; 2 has no descriptor
RequestIds == {0, 1, 2}
\* the names a models base path may hold, as their rank in lexicographic order
DirNames == {1, 2, 3}
\* a name of the base path is absent, a plain file or a folder without
\* labels.yaml ("bare"), a folder whose labels.yaml fails to load or to
\* validate ("invalid"), or a folder with a valid descriptor ("valid")
EntryKinds == {"absent", "bare", "invalid", "valid"}
\* the keys ModelInfo.from_dict reads from labels.yaml
Fields == {"model_name", "model_family", "version", "model_path", "task",
           "input_size", "description", "metadata", "names"}
\* a key is "absent" or "given" with a non-empty value; a given task is one of
\* classification / detection / segmentation, or "other"; a given model_path
\* names a file that exists next to labels.yaml, or is "dangling"
Descriptors ==
    {[f \in Fields |-> IF f = "task" THEN tk
                       ELSE IF f = "model_path" THEN mp
                       ELSE IF f \in P THEN "given" ELSE "absent"] :
        P \in SUBSET (Fields \ {"task", "model_path"}),
        tk \in {"absent", "given", "other"},
        mp \in {"absent", "given", "dangling"}}
\* values get_current_memory_mb() may return: below 80%, at 80%, at 90%,
\* at 100% and above 100% of MaxMemoryMB
MemLevels == {300, 400, 450, 500, 600}

VARIABLES
    sessions,        \* self.sessions: the keys of the OrderedDict, first = least recently used
    label_names,     \* self.label_names: the ids that have a label map
    models,          \* self.models is not None
    request_count,   \* self.request_count
    pc,              \* each worker's position
    op,              \* the entry point the worker is in
    model_id,        \* the worker's argument model_id
    retpc,           \* where check_memory_and_evict returns to
    rc,              \* self.request_count += 1: the value loaded, then the value stored
    current_memory,  \* get_session's local current_memory
    evict_memory,    \* check_memory_and_evict's local current_memory
    victim,          \* check_memory_and_evict's local model_id (<<>> before popitem)
    result,          \* whether the entry point returned an object (FALSE: None or an exception)
    outcome,         \* how the entry point ended
    entrySessions,   \* history: self.sessions as the Observer's get_session call began
    calm,            \* history: every memory sample of the Observer's call was
                     \* at most 80% of MaxMemoryMB
    overcap,         \* history: a check of the Observer's call has ended with the
                     \* cache empty and its sample above MaxMemoryMB
    lastUse,         \* history: the loaded ids in the order of their last access
    stats,           \* what get_cache_stats has just returned (<<>>: another
                     \* operation has run since, or no call yet)
    base_readable,   \* os.listdir(models_base_path) succeeds
    listing,         \* what os.listdir(models_base_path) returns, in its order
    kind,            \* what each name of the base path is
    models_dict,     \* Models.models: id |-> subdirectory
    load_i,          \* load_models_info's counter i
    pos,             \* load_models_info's place in the for loop
    skipped,         \* the "Failed to load model info" errors logged
    startup,         \* ApplicationState.__init__: "init", "loading", "ok", "failed"
    descriptor,      \* the labels.yaml that load_model_info_from_yaml reads
    verdict          \* how load_model_info_from_yaml ended ("none": not called yet)

shared == <<sessions, label_names, models, request_count>>
locals == <<pc, op, model_id, retpc, rc, current_memory, evict_memory, victim,
            result, outcome, entrySessions, calm, overcap>>
catalog == <<base_readable, listing, kind, models_dict, load_i, pos, skipped, startup>>
loader == <<descriptor, verdict>>
vars == <<shared, locals, lastUse, stats, catalog, loader>>

\* ---------------------------------------------------------------- helpers
Range(s) == {s[i] : i \in 1..Len(s)}

\* model_id in self.sessions
Loaded(id) == id \in Range(sessions)

Remove(s, id) == SelectSeq(s, LAMBDA x : x # id)

\* OrderedDict.move_to_end(key)
MoveToEnd(s, id) == Append(Remove(s, id), id)

\* a store that would leave the new key alone in the dictionary
SetItem_Single(s, id) == <<id>>

\* OrderedDict.__setitem__: a new key goes last, an existing key keeps its place
SetItem(s, id) == IF id \in Range(s) THEN s ELSE Append(s, id)

\* a test that would fire one call early
PeriodicDue_OffByOne(c) == (c + 1) % MemoryCheckInterval = 0

\* request_count % memory_check_interval == 0
PeriodicDue(c) == c % MemoryCheckInterval = 0

\* a test that would also fire at exactly 80%
PreLoadCheckNeeded_AtWatermark(m) == m * 10 >= MaxMemoryMB * 8

\* current_memory > self.max_memory_mb * 0.8
PreLoadCheckNeeded(m) == m * 10 > MaxMemoryMB * 8

\* current_memory > self.max_memory_mb
OverLimit(m) == m > MaxMemoryMB

\* a loop test that would go on down to 80% of the limit
AboveTarget_AtHighWatermark(m) == m * 10 > MaxMemoryMB * 8

\* a loop test that would stop at the limit instead of at 90% of it
AboveTarget_AtLimit(m) == m > MaxMemoryMB

\* current_memory > self.max_memory_mb * 0.9
AboveTarget(m) == m * 10 > MaxMemoryMB * 9

\* workers between the load and the store of self.request_count += 1
Incrementing == {t \in Threads : pc[t] = "g_write"}

\* consumers running model.predict with the session of id
InUse(id) == Cardinality({t \in Threads : pc[t] = "predict" /\ model_id[t] = id})

\* history: calm after worker t has sampled m
Sampled(t, m) == IF t = Observer THEN calm /\ m * 10 <= MaxMemoryMB * 8 ELSE calm

\* history: overcap after worker t has sampled m in check_memory_and_evict
Exhausted(t, m) ==
    IF t = Observer THEN overcap \/ (m > MaxMemoryMB /\ Len(sessions) = 0) ELSE overcap

\* ---------------------------------------------------------------- initial state
\* InferenceSessionsWithLRU.__init__
InitCache ==
    /\ sessions = <<>>
    /\ label_names = {}
    /\ models = FALSE
    /\ request_count = 0
    /\ pc = [t \in Threads |-> "idle"]
    /\ op = [t \in Threads |-> "none"]
    /\ model_id = [t \in Threads |-> 0]
    /\ retpc = [t \in Threads |-> "none"]
    /\ rc = [t \in Threads |-> 0]
    /\ current_memory = [t \in Threads |-> 0]
    /\ evict_memory = [t \in Threads |-> 0]
    /\ victim = [t \in Threads |-> <<>>]
    /\ result = [t \in Threads |-> FALSE]
    /\ outcome = [t \in Threads |-> "none"]
    /\ entrySessions = <<>>
    /\ calm = TRUE
    /\ overcap = FALSE
    /\ lastUse = <<>>
    /\ stats = <<>>

\* the cache is constructed after load_models has found the two valid
\* descriptors of ids 0 and 1
Init ==
    /\ InitCache
    /\ base_readable = TRUE
    /\ listing = <<1, 2>>
    /\ kind = [n \in DirNames |-> IF n \in {1, 2} THEN "valid" ELSE "absent"]
    /\ models_dict = (0 :> 1) @@ (1 :> 2)
    /\ load_i = 2
    /\ pos = 3
    /\ skipped = 0
    /\ startup = "ok"
    /\ descriptor = [f \in Fields |-> "given"]
    /\ verdict = "none"

\* ---------------------------------------------------------------- initialize_sessions
InitializeSessions ==
    /\ ~models
    /\ models' = TRUE
    /\ UNCHANGED <<sessions, label_names, request_count, locals, lastUse>>
    /\ stats' = <<>>
    /\ UNCHANGED <<catalog, loader>>

\* ---------------------------------------------------------------- calls and returns
\* the worker moves on to p; its locals stay as they are
Goto(t, p) ==
    /\ pc' = [pc EXCEPT ![t] = p]
    /\ UNCHANGED <<op, model_id, retpc, rc, current_memory, evict_memory, victim,
                   result, outcome, entrySessions, calm, overcap>>

\* the entry point returns (r: an object, ~r: None) or raises (o = "KeyError");
\* its frames are gone
Return(t, r, o) ==
    /\ pc' = [pc EXCEPT ![t] = "ret"]
    /\ result' = [result EXCEPT ![t] = r]
    /\ outcome' = [outcome EXCEPT ![t] = o]
    /\ retpc' = [retpc EXCEPT ![t] = "none"]
    /\ rc' = [rc EXCEPT ![t] = 0]
    /\ current_memory' = [current_memory EXCEPT ![t] = 0]
    /\ evict_memory' = [evict_memory EXCEPT ![t] = 0]
    /\ victim' = [victim EXCEPT ![t] = <<>>]
    /\ UNCHANGED <<op, model_id, entrySessions, calm, overcap>>

\* the worker is back in its caller with nothing of the call left
Reset(t) ==
    /\ pc' = [pc EXCEPT ![t] = "idle"]
    /\ op' = [op EXCEPT ![t] = "none"]
    /\ model_id' = [model_id EXCEPT ![t] = 0]
    /\ result' = [result EXCEPT ![t] = FALSE]
    /\ outcome' = [outcome EXCEPT ![t] = "none"]
    /\ entrySessions' = IF t = Observer THEN <<>> ELSE entrySessions
    /\ calm' = IF t = Observer THEN TRUE ELSE calm
    /\ overcap' = IF t = Observer THEN FALSE ELSE overcap
    /\ UNCHANGED <<retpc, rc, current_memory, evict_memory, victim>>

\* ---------------------------------------------------------------- get_session
\* a worker calls get_session(id) (DetectionService.detect_objects and
\* run_inference, the tests) and loads self.request_count for += 1
GetSession(t) ==
    /\ pc[t] = "idle"
    /\ request_count + Cardinality(Incrementing) < MaxRequests
    /\ \E id \in RequestIds : model_id' = [model_id EXCEPT ![t] = id]
    /\ entrySessions' = IF t = Observer THEN sessions ELSE entrySessions
    /\ pc' = [pc EXCEPT ![t] = "g_write"]
    /\ op' = [op EXCEPT ![t] = "get_session"]
    /\ rc' = [rc EXCEPT ![t] = request_count]
    /\ UNCHANGED <<shared, lastUse, retpc, current_memory, evict_memory, victim,
                   result, outcome, calm, overcap>>
    /\ stats' = <<>>
    /\ UNCHANGED <<catalog, loader>>

\* self.request_count += 1: the store
GWrite(t) ==
    /\ pc[t] = "g_write"
    /\ request_count' = rc[t] + 1
    /\ rc' = [rc EXCEPT ![t] = rc[t] + 1]
    /\ pc' = [pc EXCEPT ![t] = "g_periodic"]
    /\ UNCHANGED <<sessions, label_names, models, lastUse, op, model_id, retpc,
                   current_memory, evict_memory, victim, result, outcome,
                   entrySessions, calm, overcap>>
    /\ stats' = <<>>
    /\ UNCHANGED <<catalog, loader>>

\* if self.request_count % self.memory_check_interval == 0: self.check_memory_and_evict()
GPeriodic(t) ==
    /\ pc[t] = "g_periodic"
    /\ IF PeriodicDue(request_count)
       THEN /\ pc' = [pc EXCEPT ![t] = "e_sample"]
            /\ retpc' = [retpc EXCEPT ![t] = "g_lookup"]
       ELSE /\ pc' = [pc EXCEPT ![t] = "g_lookup"]
            /\ UNCHANGED retpc
    /\ rc' = [rc EXCEPT ![t] = 0]
    /\ UNCHANGED <<shared, lastUse, op, model_id, current_memory, evict_memory,
                   victim, result, outcome, entrySessions, calm, overcap>>
    /\ stats' = <<>>
    /\ UNCHANGED <<catalog, loader>>

\* a membership test that would wait while another worker is inside YOLO()
GLookup_Locked(t) ==
    /\ pc[t] = "g_lookup"
    /\ \A u \in Threads \ {t} : pc[u] # "a_yolo"
    /\ Goto(t, IF Loaded(model_id[t]) THEN "g_move" ELSE "g_presample")
    /\ UNCHANGED <<shared, lastUse>>
    /\ stats' = <<>>
    /\ UNCHANGED <<catalog, loader>>

\* if model_id in self.sessions:
GLookup(t) ==
    /\ pc[t] = "g_lookup"
    /\ Goto(t, IF Loaded(model_id[t]) THEN "g_move" ELSE "g_presample")
    /\ UNCHANGED <<shared, lastUse>>
    /\ stats' = <<>>
    /\ UNCHANGED <<catalog, loader>>

\* self.sessions.move_to_end(model_id); KeyError if the key has gone meanwhile
GMove(t) ==
    /\ pc[t] = "g_move"
    /\ IF Loaded(model_id[t])
       THEN /\ sessions' = MoveToEnd(sessions, model_id[t])
            /\ lastUse' = MoveToEnd(lastUse, model_id[t])
            /\ Goto(t, "g_hit")
       ELSE /\ Return(t, FALSE, "KeyError")
            /\ UNCHANGED <<sessions, lastUse>>
    /\ UNCHANGED <<label_names, models, request_count>>
    /\ stats' = <<>>
    /\ UNCHANGED <<catalog, loader>>

\* return self.sessions[model_id]; KeyError if the key has gone meanwhile
GHit(t) ==
    /\ pc[t] = "g_hit"
    /\ IF Loaded(model_id[t])
       THEN Return(t, TRUE, "hit")
       ELSE Return(t, FALSE, "KeyError")
    /\ UNCHANGED <<shared, lastUse>>
    /\ stats' = <<>>
    /\ UNCHANGED <<catalog, loader>>

\* current_memory = self.get_current_memory_mb()
\* if current_memory > self.max_memory_mb * 0.8: self.check_memory_and_evict()
GPreSample(t) ==
    /\ pc[t] = "g_presample"
    /\ \E m \in MemLevels :
        /\ current_memory' = [current_memory EXCEPT ![t] = m]
        /\ calm' = Sampled(t, m)
        /\ IF PreLoadCheckNeeded(m)
           THEN /\ pc' = [pc EXCEPT ![t] = "e_sample"]
                /\ retpc' = [retpc EXCEPT ![t] = "a_lookup"]
           ELSE /\ pc' = [pc EXCEPT ![t] = "a_lookup"]
                /\ UNCHANGED retpc
    /\ UNCHANGED <<shared, lastUse, op, model_id, rc, evict_memory, victim,
                   result, outcome, entrySessions, overcap>>
    /\ stats' = <<>>
    /\ UNCHANGED <<catalog, loader>>

\* return self.sessions.get(model_id) after add_session_label
GLoaded(t) ==
    /\ pc[t] = "g_loaded"
    /\ Return(t, Loaded(model_id[t]), "loaded")
    /\ UNCHANGED <<shared, lastUse>>
    /\ stats' = <<>>
    /\ UNCHANGED <<catalog, loader>>

\* get_session has returned to a caller that only tests or drops the result
\* (detect_objects, the tests), or returned None or raised
GDone(t) ==
    /\ pc[t] = "ret"
    /\ op[t] = "get_session"
    /\ Reset(t)
    /\ UNCHANGED <<shared, lastUse>>
    /\ stats' = <<>>
    /\ UNCHANGED <<catalog, loader>>

\* get_session has returned a session to run_inference, which starts
\* results = model.predict(...)
RunInference(t) ==
    /\ pc[t] = "ret"
    /\ op[t] = "get_session"
    /\ result[t]
    /\ Goto(t, "predict")
    /\ UNCHANGED <<shared, lastUse>>
    /\ stats' = <<>>
    /\ UNCHANGED <<catalog, loader>>

\* model.predict(...) completes
Predict(t) ==
    /\ pc[t] = "predict"
    /\ Reset(t)
    /\ UNCHANGED <<shared, lastUse>>
    /\ stats' = <<>>
    /\ UNCHANGED <<catalog, loader>>

\* ---------------------------------------------------------------- add_session_label
\* a lookup that would not test self.models is not None
ALookup_NoCatalogCheck(t) ==
    /\ pc[t] = "a_lookup"
    /\ IF model_id[t] \notin ModelIds
       THEN Return(t, FALSE, "UnknownId")
       ELSE /\ pc' = [pc EXCEPT ![t] = "a_yolo"]
            /\ current_memory' = [current_memory EXCEPT ![t] = 0]
            /\ UNCHANGED <<op, model_id, retpc, rc, evict_memory, victim, result,
                           outcome, entrySessions, calm, overcap>>
    /\ UNCHANGED <<shared, lastUse>>
    /\ stats' = <<>>
    /\ UNCHANGED <<catalog, loader>>

\* a lookup that would not test model_info is None
ALookup_NoRegistryCheck(t) ==
    /\ pc[t] = "a_lookup"
    /\ IF ~models
       THEN Return(t, FALSE, "NoCatalog")
       ELSE /\ pc' = [pc EXCEPT ![t] = "a_yolo"]
            /\ current_memory' = [current_memory EXCEPT ![t] = 0]
            /\ UNCHANGED <<op, model_id, retpc, rc, evict_memory, victim, result,
                           outcome, entrySessions, calm, overcap>>
    /\ UNCHANGED <<shared, lastUse>>
    /\ stats' = <<>>
    /\ UNCHANGED <<catalog, loader>>

\* if self.models is not None: ... model_info = models.models.get(str(model_id))
\* if model_info is None: raise ValueError (get_session and get_label_names
\* catch it and return None)
ALookup(t) ==
    /\ pc[t] = "a_lookup"
    /\ IF ~models
       THEN Return(t, FALSE, "NoCatalog")
       ELSE IF model_id[t] \notin ModelIds
       THEN Return(t, FALSE, "UnknownId")
       ELSE /\ pc' = [pc EXCEPT ![t] = "a_yolo"]
            /\ current_memory' = [current_memory EXCEPT ![t] = 0]
            /\ UNCHANGED <<op, model_id, retpc, rc, evict_memory, victim, result,
                           outcome, entrySessions, calm, overcap>>
    /\ UNCHANGED <<shared, lastUse>>
    /\ stats' = <<>>
    /\ UNCHANGED <<catalog, loader>>

\* session = YOLO(model_info.model_path) returns a new session
YoloLoads(t) ==
    /\ Goto(t, "a_insert")
    /\ UNCHANGED <<shared, lastUse>>
    /\ stats' = <<>>
    /\ UNCHANGED <<catalog, loader>>

\* a failure that would make add_session_label try again
YoloFails_Retry(t) ==
    /\ Goto(t, "a_lookup")
    /\ UNCHANGED <<shared, lastUse>>
    /\ stats' = <<>>
    /\ UNCHANGED <<catalog, loader>>

\* a failure that would drop every loaded entry
YoloFails_Clears(t) ==
    /\ Return(t, FALSE, "LoadFailure")
    /\ sessions' = <<>>
    /\ label_names' = {}
    /\ lastUse' = <<>>
    /\ UNCHANGED <<models, request_count>>
    /\ stats' = <<>>
    /\ UNCHANGED <<catalog, loader>>

\* a failure that would leave the key in self.sessions
YoloFails_Partial(t) ==
    /\ Return(t, FALSE, "LoadFailure")
    /\ sessions' = SetItem(sessions, model_id[t])
    /\ UNCHANGED <<label_names, models, request_count, lastUse>>
    /\ stats' = <<>>
    /\ UNCHANGED <<catalog, loader>>

\* session = YOLO(model_info.model_path) raises; add_session_label re-raises,
\* the entry point logs it and returns None
YoloFails(t) ==
    /\ Return(t, FALSE, "LoadFailure")
    /\ UNCHANGED <<shared, lastUse>>
    /\ stats' = <<>>
    /\ UNCHANGED <<catalog, loader>>

AYolo(t) ==
    /\ pc[t] = "a_yolo"
    /\ \/ YoloLoads(t)
       \/ YoloFails(t)

\* self.sessions[model_id] = session
AInsert(t) ==
    /\ pc[t] = "a_insert"
    /\ sessions' = SetItem(sessions, model_id[t])
    /\ lastUse' = MoveToEnd(lastUse, model_id[t])
    /\ Goto(t, "a_labels")
    /\ UNCHANGED <<label_names, models, request_count>>
    /\ stats' = <<>>
    /\ UNCHANGED <<catalog, loader>>

\* a load that would not store the label map
ALabels_NoStore(t) ==
    /\ pc[t] = "a_labels"
    /\ Goto(t, IF op[t] = "get_label_names" THEN "l_loaded" ELSE "g_loaded")
    /\ UNCHANGED <<shared, lastUse>>
    /\ stats' = <<>>
    /\ UNCHANGED <<catalog, loader>>

\* self.label_names[model_id] = model_info.names, then back in the entry point
ALabels(t) ==
    /\ pc[t] = "a_labels"
    /\ label_names' = label_names \cup {model_id[t]}
    /\ Goto(t, IF op[t] = "get_label_names" THEN "l_loaded" ELSE "g_loaded")
    /\ UNCHANGED <<sessions, models, request_count, lastUse>>
    /\ stats' = <<>>
    /\ UNCHANGED <<catalog, loader>>

\* ---------------------------------------------------------------- check_memory_and_evict
\* the loop test of
\*   while len(self.sessions) > 0 and current_memory > self.max_memory_mb * 0.9:
\* with current_memory = m: on to popitem, or out of the loop
LoopTest(t, m) ==
    pc' = [pc EXCEPT ![t] = IF Len(sessions) > 0 /\ AboveTarget(m) THEN "e_pop" ELSE "e_warn"]

\* current_memory = self.get_current_memory_mb()
\* if current_memory > self.max_memory_mb: (the first loop test) else: return
ESample(t) ==
    /\ pc[t] = "e_sample"
    /\ \E m \in MemLevels :
        /\ evict_memory' = [evict_memory EXCEPT ![t] = m]
        /\ calm' = Sampled(t, m)
        /\ overcap' = Exhausted(t, m)
        /\ IF OverLimit(m)
           THEN LoopTest(t, m)
           ELSE pc' = [pc EXCEPT ![t] = "e_ret"]
    /\ current_memory' = [current_memory EXCEPT ![t] = 0]
    /\ UNCHANGED <<shared, lastUse, op, model_id, retpc, rc, victim, result,
                   outcome, entrySessions>>
    /\ stats' = <<>>
    /\ UNCHANGED <<catalog, loader>>

\* a loop body that would read the first entry and leave it in the dictionary
EPop_KeepsKey(t) ==
    /\ pc[t] = "e_pop"
    /\ IF sessions # <<>>
       THEN /\ victim' = [victim EXCEPT ![t] = <<Head(sessions)>>]
            /\ evict_memory' = [evict_memory EXCEPT ![t] = 0]
            /\ pc' = [pc EXCEPT ![t] = "e_dellabel"]
            /\ UNCHANGED <<op, model_id, retpc, rc, current_memory, result,
                           outcome, entrySessions, calm, overcap>>
       ELSE Return(t, FALSE, "KeyError")
    /\ UNCHANGED <<shared, lastUse>>
    /\ stats' = <<>>
    /\ UNCHANGED <<catalog, loader>>

\* model_id, model = self.sessions.popitem(last=False); KeyError if the
\* dictionary has been emptied meanwhile
EPop(t) ==
    /\ pc[t] = "e_pop"
    /\ IF sessions # <<>>
       THEN /\ sessions' = Tail(sessions)
            /\ lastUse' = Remove(lastUse, Head(sessions))
            /\ victim' = [victim EXCEPT ![t] = <<Head(sessions)>>]
            /\ evict_memory' = [evict_memory EXCEPT ![t] = 0]
            /\ pc' = [pc EXCEPT ![t] = "e_dellabel"]
            /\ UNCHANGED <<op, model_id, retpc, rc, current_memory, result,
                           outcome, entrySessions, calm, overcap>>
       ELSE /\ Return(t, FALSE, "KeyError")
            /\ UNCHANGED <<sessions, lastUse>>
    /\ UNCHANGED <<label_names, models, request_count>>
    /\ stats' = <<>>
    /\ UNCHANGED <<catalog, loader>>

\* an eviction that would leave the label map of its victim behind
EDelLabel_KeepsLabel(t) ==
    /\ pc[t] = "e_dellabel"
    /\ pc' = [pc EXCEPT ![t] = "e_resample"]
    /\ victim' = [victim EXCEPT ![t] = <<>>]
    /\ UNCHANGED <<shared, lastUse, op, model_id, retpc, rc, current_memory,
                   evict_memory, result, outcome, entrySessions, calm, overcap>>
    /\ stats' = <<>>
    /\ UNCHANGED <<catalog, loader>>

\* if model_id in self.label_names: del self.label_names[model_id]; del model
EDelLabel(t) ==
    /\ pc[t] = "e_dellabel"
    /\ label_names' = label_names \ Range(victim[t])
    /\ pc' = [pc EXCEPT ![t] = "e_resample"]
    /\ victim' = [victim EXCEPT ![t] = <<>>]
    /\ UNCHANGED <<sessions, models, request_count, lastUse, op, model_id, retpc, rc,
                   current_memory, evict_memory, result, outcome, entrySessions, calm, overcap>>
    /\ stats' = <<>>
    /\ UNCHANGED <<catalog, loader>>

\* current_memory = self.get_current_memory_mb() at the end of the loop body,
\* and the next loop test
EResample(t) ==
    /\ pc[t] = "e_resample"
    /\ \E m \in MemLevels :
        /\ evict_memory' = [evict_memory EXCEPT ![t] = m]
        /\ calm' = Sampled(t, m)
        /\ overcap' = Exhausted(t, m)
        /\ LoopTest(t, m)
    /\ UNCHANGED <<shared, lastUse, op, model_id, retpc, rc, current_memory, victim,
                   result, outcome, entrySessions>>
    /\ stats' = <<>>
    /\ UNCHANGED <<catalog, loader>>

\* a check that would raise instead of warning when it has emptied the cache
EWarn_Raises(t) ==
    /\ pc[t] = "e_warn"
    /\ IF Len(sessions) = 0
       THEN Return(t, FALSE, "Overcapacity")
       ELSE /\ pc' = [pc EXCEPT ![t] = retpc[t]]
            /\ retpc' = [retpc EXCEPT ![t] = "none"]
            /\ evict_memory' = [evict_memory EXCEPT ![t] = 0]
            /\ UNCHANGED <<op, model_id, rc, current_memory, victim, result,
                           outcome, entrySessions, calm, overcap>>
    /\ UNCHANGED <<shared, lastUse>>
    /\ stats' = <<>>
    /\ UNCHANGED <<catalog, loader>>

\* after the loop: if len(self.sessions) == 0: logger.warning(...), and
\* check_memory_and_evict returns to get_session
EWarn(t) ==
    /\ pc[t] = "e_warn"
    /\ pc' = [pc EXCEPT ![t] = retpc[t]]
    /\ retpc' = [retpc EXCEPT ![t] = "none"]
    /\ evict_memory' = [evict_memory EXCEPT ![t] = 0]
    /\ UNCHANGED <<shared, lastUse, op, model_id, rc, current_memory, victim, result,
                   outcome, entrySessions, calm, overcap>>
    /\ stats' = <<>>
    /\ UNCHANGED <<catalog, loader>>

\* memory was not over the limit: check_memory_and_evict returns to get_session
ERet(t) ==
    /\ pc[t] = "e_ret"
    /\ pc' = [pc EXCEPT ![t] = retpc[t]]
    /\ retpc' = [retpc EXCEPT ![t] = "none"]
    /\ evict_memory' = [evict_memory EXCEPT ![t] = 0]
    /\ UNCHANGED <<shared, lastUse, op, model_id, rc, current_memory, victim, result,
                   outcome, entrySessions, calm, overcap>>
    /\ stats' = <<>>
    /\ UNCHANGED <<catalog, loader>>

\* ---------------------------------------------------------------- get_label_names
\* a worker calls get_label_names(id) (DetectionService.process_results)
GetLabelNames(t) ==
    /\ pc[t] = "idle"
    /\ \E id \in RequestIds : model_id' = [model_id EXCEPT ![t] = id]
    /\ pc' = [pc EXCEPT ![t] = "l_lookup"]
    /\ op' = [op EXCEPT ![t] = "get_label_names"]
    /\ UNCHANGED <<shared, lastUse, retpc, rc, current_memory, evict_memory, victim,
                   result, outcome, entrySessions, calm, overcap>>
    /\ stats' = <<>>
    /\ UNCHANGED <<catalog, loader>>

\* if model_id in self.label_names:
LLookup(t) ==
    /\ pc[t] = "l_lookup"
    /\ Goto(t, IF model_id[t] \in label_names THEN "l_intest" ELSE "a_lookup")
    /\ UNCHANGED <<shared, lastUse>>
    /\ stats' = <<>>
    /\ UNCHANGED <<catalog, loader>>

\* if model_id in self.sessions:
LInTest(t) ==
    /\ pc[t] = "l_intest"
    /\ Goto(t, IF Loaded(model_id[t]) THEN "l_move" ELSE "l_hit")
    /\ UNCHANGED <<shared, lastUse>>
    /\ stats' = <<>>
    /\ UNCHANGED <<catalog, loader>>

\* a label lookup that would count as a request
LMove_Counting(t) ==
    /\ pc[t] = "l_move"
    /\ IF Loaded(model_id[t])
       THEN /\ sessions' = MoveToEnd(sessions, model_id[t])
            /\ lastUse' = MoveToEnd(lastUse, model_id[t])
            /\ Goto(t, "l_hit")
       ELSE /\ Return(t, FALSE, "KeyError")
            /\ UNCHANGED <<sessions, lastUse>>
    /\ request_count' = request_count + 1
    /\ UNCHANGED <<label_names, models>>
    /\ stats' = <<>>
    /\ UNCHANGED <<catalog, loader>>

\* self.sessions.move_to_end(model_id); KeyError if the key has gone meanwhile
LMove(t) ==
    /\ pc[t] = "l_move"
    /\ IF Loaded(model_id[t])
       THEN /\ sessions' = MoveToEnd(sessions, model_id[t])
            /\ lastUse' = MoveToEnd(lastUse, model_id[t])
            /\ Goto(t, "l_hit")
       ELSE /\ Return(t, FALSE, "KeyError")
            /\ UNCHANGED <<sessions, lastUse>>
    /\ UNCHANGED <<label_names, models, request_count>>
    /\ stats' = <<>>
    /\ UNCHANGED <<catalog, loader>>

\* return self.label_names[model_id]; KeyError if the key has gone meanwhile
LHit(t) ==
    /\ pc[t] = "l_hit"
    /\ IF model_id[t] \in label_names
       THEN Return(t, TRUE, "hit")
       ELSE Return(t, FALSE, "KeyError")
    /\ UNCHANGED <<shared, lastUse>>
    /\ stats' = <<>>
    /\ UNCHANGED <<catalog, loader>>

\* return self.label_names.get(model_id) after add_session_label
LLoaded(t) ==
    /\ pc[t] = "l_loaded"
    /\ Return(t, model_id[t] \in label_names, "loaded")
    /\ UNCHANGED <<shared, lastUse>>
    /\ stats' = <<>>
    /\ UNCHANGED <<catalog, loader>>

\* get_label_names has returned
LDone(t) ==
    /\ pc[t] = "ret"
    /\ op[t] = "get_label_names"
    /\ Reset(t)
    /\ UNCHANGED <<shared, lastUse>>
    /\ stats' = <<>>
    /\ UNCHANGED <<catalog, loader>>

\* ---------------------------------------------------------------- get_cache_stats
\* a get_cache_stats that would count itself as a request
GetCacheStats_Counting ==
    /\ \E m1, m2 \in MemLevels :
        stats' = <<[loaded_models |-> sessions,
                    num_loaded_models |-> Len(sessions),
                    current_memory_mb |-> m1,
                    max_memory_mb |-> MaxMemoryMB,
                    memory_usage_percent |-> (m2 * 100) \div MaxMemoryMB,
                    request_count |-> request_count + 1,
                    memory_check_interval |-> MemoryCheckInterval]>>
    /\ request_count' = request_count + 1
    /\ UNCHANGED <<sessions, label_names, models, locals, lastUse, catalog, loader>>

\* the handler of /api/v2/cache/stats calls get_cache_stats(): the dictionary
\* is built from self.sessions, two samples of get_current_memory_mb() (one
\* for current_memory_mb, one for memory_usage_percent) and self.request_count
GetCacheStats ==
    /\ \E m1, m2 \in MemLevels :
        stats' = <<[loaded_models |-> sessions,
                    num_loaded_models |-> Len(sessions),
                    current_memory_mb |-> m1,
                    max_memory_mb |-> MaxMemoryMB,
                    memory_usage_percent |-> (m2 * 100) \div MaxMemoryMB,
                    request_count |-> request_count,
                    memory_check_interval |-> MemoryCheckInterval]>>
    /\ UNCHANGED <<shared, locals, lastUse, catalog, loader>>

\* ---------------------------------------------------------------- load_models
\* the sequences that hold every element of S once
Orders(S) == {q \in UNION {[1..n -> S] : n \in {Cardinality(S)}} :
                 \A a, b \in 1..Cardinality(S) : a # b => q[a] # q[b]}

\* ApplicationState.__init__ is about to call load_models(config.models_path)
\* on some base path: os.listdir returns its names in an arbitrary order
InitCatalog ==
    /\ InitCache
    /\ base_readable \in BOOLEAN
    /\ kind \in [DirNames -> EntryKinds]
    /\ listing \in Orders({n \in DirNames : kind[n] # "absent"})
    /\ models_dict = <<>>
    /\ load_i = 0
    /\ pos = 1
    /\ skipped = 0
    /\ startup = "init"
    /\ descriptor = [f \in Fields |-> "given"]
    /\ verdict = "none"

\* a loop that would use up an id for a descriptor that fails
IdAfter_Always(k, n) == IF k \in {"valid", "invalid"} THEN n + 1 ELSE n

\* i += 1 follows self.models[str(i)] = model_info only
IdAfter(k, n) == IF k = "valid" THEN n + 1 ELSE n

\* a load_models that would return an empty catalog for an unreadable path
LoadModels_Swallow ==
    /\ startup = "init"
    /\ startup' = IF base_readable THEN "loading" ELSE "ok"
    /\ UNCHANGED <<shared, locals, lastUse, stats, loader, base_readable, listing, kind,
                   models_dict, load_i, pos, skipped>>

\* load_models: models = Models(models={}); models.load_models_info(path);
\* os.listdir raises on an unreadable path, load_models re-raises and
\* ApplicationState.__init__ raises: the application does not start
LoadModels ==
    /\ startup = "init"
    /\ startup' = IF base_readable THEN "loading" ELSE "failed"
    /\ UNCHANGED <<shared, locals, lastUse, stats, loader, base_readable, listing, kind,
                   models_dict, load_i, pos, skipped>>

\* one iteration of for model_folder in os.listdir(models_base_path)
LoadStep ==
    /\ startup = "loading"
    /\ pos <= Len(listing)
    /\ LET k == kind[listing[pos]] IN
        /\ models_dict' = IF k = "valid"
                          THEN (load_i :> listing[pos]) @@ models_dict
                          ELSE models_dict
        /\ load_i' = IdAfter(k, load_i)
        /\ skipped' = IF k = "invalid" THEN skipped + 1 ELSE skipped
    /\ pos' = pos + 1
    /\ UNCHANGED <<shared, locals, lastUse, stats, loader, base_readable, listing, kind, startup>>

\* the loop is over: load_models returns the Models instance
LoadDone ==
    /\ startup = "loading"
    /\ pos > Len(listing)
    /\ startup' = "ok"
    /\ UNCHANGED <<shared, locals, lastUse, stats, loader, base_readable, listing, kind,
                   models_dict, load_i, pos, skipped>>

\* ---------------------------------------------------------------- load_model_info_from_yaml
\* bool() of the attribute is_complete tests for key f.  ModelInfo.from_dict
\* puts "" or {} for an absent key, but a Metadata instance for an absent
\* metadata; load_model_info_from_yaml has replaced model_path by
\* os.path.join(os.path.dirname(yaml_path), model_path) before is_complete
Truthy(d, f) ==
    IF f = "metadata" THEN TRUE
    ELSE IF f = "model_path" THEN TRUE
    ELSE d[f] # "absent"

\* ModelInfo.is_complete: all(required_fields)
IsComplete(d) == \A f \in Fields : Truthy(d, f)

\* ModelInfo.validate_task: self.task in valid_tasks
ValidTask(d) == d["task"] = "given"

\* ModelInfo.validate_model_path: os.path.exists(self.model_path); for an
\* absent model_path the joined path is the folder of labels.yaml itself
PathExists(d) == d["model_path"] \in {"given", "absent"}

\* ModelInfo.load_model_info_from_yaml: the ModelInfo is returned, or
\* ValueError (incomplete, invalid task) or FileNotFoundError is raised
LoadModelInfoFromYaml(d) ==
    IF ~IsComplete(d) THEN "Incomplete"
    ELSE IF ~ValidTask(d) THEN "Malformed"
    ELSE IF ~PathExists(d) THEN "PathInvalid"
    ELSE "admitted"

\* load_models_info has found some labels.yaml
InitDescriptor ==
    /\ InitCache
    /\ base_readable = TRUE
    /\ kind = [n \in DirNames |-> IF n = 1 THEN "valid" ELSE "absent"]
    /\ listing = <<1>>
    /\ models_dict = <<>>
    /\ load_i = 0
    /\ pos = 1
    /\ skipped = 0
    /\ startup = "loading"
    /\ descriptor \in Descriptors
    /\ verdict = "none"

\* model_info = ModelInfo.load_model_info_from_yaml(labels_file)
LoadModelInfo ==
    /\ verdict = "none"
    /\ verdict' = LoadModelInfoFromYaml(descriptor)
    /\ UNCHANGED <<shared, locals, lastUse, stats, catalog, descriptor>>

\* ---------------------------------------------------------------- the program
Step(t) ==
    \/ GetSession(t) \/ GWrite(t) \/ GPeriodic(t) \/ GLookup(t) \/ GMove(t)
    \/ GHit(t) \/ GPreSample(t) \/ GLoaded(t) \/ GDone(t)
    \/ RunInference(t) \/ Predict(t)
    \/ ALookup(t) \/ AYolo(t) \/ AInsert(t) \/ ALabels(t)
    \/ ESample(t) \/ EPop(t) \/ EDelLabel(t) \/ EResample(t) \/ EWarn(t) \/ ERet(t)
    \/ GetLabelNames(t) \/ LLookup(t) \/ LInTest(t) \/ LMove(t) \/ LHit(t)
    \/ LLoaded(t) \/ LDone(t)

\* concurrent request handlers (get_cache_stats writes nothing of the cache
\* and is left to SeqNext)
Next ==
    \/ InitializeSessions
    \/ \E t \in Threads : Step(t)

Spec == Init /\ [][Next]_vars

\* callers that never overlap: a worker moves only while every other is idle
SeqNext ==
    \/ InitializeSessions
    \/ \E t \in Threads : (\A u \in Threads \ {t} : pc[u] = "idle") /\ Step(t)
    \/ (\A u \in Threads : pc[u] = "idle") /\ GetCacheStats

SpecSeq == Init /\ [][SeqNext]_vars

\* a step of worker t while no other call is under way
SeqStep(t) == (\A u \in Threads \ {t} : pc[u] = "idle") /\ Step(t)

\* SpecSeq with handlers that run on: the interpreter executes the next
\* statement of a call that is under way
SpecSeqFair == SpecSeq /\ \A t \in Threads : WF_vars(SeqStep(t))

\* startup: the catalog load of one base path
CatalogNext ==
    \/ LoadModels
    \/ LoadStep
    \/ LoadDone

SpecCatalog == InitCatalog /\ [][CatalogNext]_vars

\* the load of one descriptor
DescriptorNext == LoadModelInfo

SpecDescriptor == InitDescriptor /\ [][DescriptorNext]_vars

\* ================================================================ properties
\* worker t leaves check_memory_and_evict: the if of line 105 is false
\* (from e_sample) or the while of line 111 ends (from e_sample or e_resample)
PassEnds(t) ==
    /\ pc[t] \in {"e_sample", "e_resample"}
    /\ pc'[t] \in {"e_ret", "e_warn"}

\* worker t stores a freshly built session into self.sessions
Inserts(t) == pc[t] = "a_insert" /\ pc'[t] = "a_labels"

\* ---------------------------------------------------------------- C1
\* C1: for any interleaving of concurrent get calls, the engine
\* instantiations for an id are exactly its Unloaded->Loaded transitions, and
\* two simultaneous misses for the same id never both instantiate.  Every
\* session YOLO() returns is stored by the next step of the same worker, so
\* the instantiations are the Inserts steps, and an Inserts step is an
\* Unloaded->Loaded transition exactly when the id is not loaded before it:
\* no worker stores a session for an id that is loaded, and no two workers
\* hold a fresh session for the same id.
C1_AtMostOneLoad ==
    [][/\ \A t \in Threads : Inserts(t) => ~Loaded(model_id[t])
       /\ \A t, u \in Threads :
            (t # u /\ pc'[t] = "a_insert" /\ pc'[u] = "a_insert")
                => model_id'[t] # model_id'[u]]_vars

\* ---------------------------------------------------------------- C2
\* C2: an entry in use (a consumer is between the get that returned its
\* session and the end of model.predict with it) is never removed by an
\* eviction pass, even when it is the least recently used.
C2_NoEvictionInUse ==
    [][\A id \in ModelIds :
         (InUse(id) > 0 /\ Loaded(id)) => id \in Range(sessions')]_vars

\* ---------------------------------------------------------------- C3
\* C3: in every reachable state the order of self.sessions (what
\* get_cache_stats reports as loaded_models) is the order of the most recent
\* access of the loaded ids, least recently used first.
C3_RecencyOrder == sessions = lastUse

\* ---------------------------------------------------------------- C4
\* C4 as stated: after any eviction pass that terminates normally the last
\* sampled memory is at most 0.9 x MaxMemoryMB or the cache is empty.
C4_LowWatermarkAfterPass ==
    [][\A t \in Threads :
         PassEnds(t) => \/ evict_memory'[t] * 10 <= MaxMemoryMB * 9
                        \/ sessions' = <<>>]_vars

\* C4 amended: after any eviction pass that terminates normally the last
\* sampled memory is at most MaxMemoryMB or the cache is empty; if the pass
\* has evicted an entry, the last sampled memory is at most 0.9 x MaxMemoryMB
\* or the cache is empty.
C4_LimitAfterPass ==
    [][\A t \in Threads :
         PassEnds(t) =>
            /\ evict_memory'[t] <= MaxMemoryMB \/ sessions' = <<>>
            /\ pc[t] = "e_resample" =>
                  \/ evict_memory'[t] * 10 <= MaxMemoryMB * 9
                  \/ sessions' = <<>>]_vars

\* a pass has evicted, stopped at the low watermark and left entries behind
C4_PassStoppedAtTarget ==
    \E t \in Threads :
        /\ pc[t] = "e_warn"
        /\ evict_memory[t] * 10 = MaxMemoryMB * 9
        /\ sessions # <<>>

\* ---------------------------------------------------------------- C5
\* worker t takes the sample of line 167 and the test of line 168
PreLoadStep(t) == pc[t] = "g_presample" /\ pc'[t] # "g_presample"

\* C5 as stated: on a miss for a known id, a pre-load sample of at least
\* 0.8 x MaxMemoryMB starts an eviction pass before the engine is
\* instantiated, and that pass evicts until sampled memory is at most
\* 0.9 x MaxMemoryMB or the cache is empty.
C5_PreLoadEvictsToTarget ==
    [][\A t \in Threads :
         model_id[t] \in ModelIds =>
            /\ (PreLoadStep(t) /\ current_memory'[t] * 10 >= MaxMemoryMB * 8)
                  => pc'[t] = "e_sample"
            /\ (retpc[t] = "a_lookup" /\ PassEnds(t))
                  => \/ evict_memory'[t] * 10 <= MaxMemoryMB * 9
                     \/ sessions' = <<>>]_vars

\* C5 amended: on a miss for a known id, check_memory_and_evict runs before
\* the engine is instantiated exactly when the pre-load sample is above
\* 0.8 x MaxMemoryMB; it takes its own sample and evicts only if that sample
\* is above MaxMemoryMB, and then until sampled memory is at most
\* 0.9 x MaxMemoryMB or the cache is empty; otherwise it evicts nothing.
C5_PreLoadCheck ==
    [][\A t \in Threads :
         model_id[t] \in ModelIds =>
            /\ PreLoadStep(t) =>
                  /\ pc'[t] \in {"e_sample", "a_lookup"}
                  /\ pc'[t] = "e_sample" <=> current_memory'[t] * 10 > MaxMemoryMB * 8
            /\ pc'[t] = "a_yolo" => retpc'[t] = "none"
            /\ (retpc[t] = "a_lookup" /\ pc[t] = "e_sample" /\ pc'[t] # "e_sample") =>
                  /\ evict_memory'[t] <= MaxMemoryMB => pc'[t] = "e_ret"
                  /\ pc'[t] = "e_pop" => evict_memory'[t] > MaxMemoryMB
            /\ (retpc[t] = "a_lookup" /\ pc[t] = "e_resample" /\ PassEnds(t)) =>
                  \/ evict_memory'[t] * 10 <= MaxMemoryMB * 9
                  \/ sessions' = <<>>]_vars

\* the pre-load pass of a miss for a known id has evicted and brought the
\* sampled memory below the low watermark, and the engine is not yet built
C5_PreLoadPassEvicted ==
    \E t \in Threads :
        /\ pc[t] = "e_warn"
        /\ retpc[t] = "a_lookup"
        /\ op[t] = "get_session"
        /\ model_id[t] \in ModelIds
        /\ current_memory[t] = 0
        /\ evict_memory[t] * 10 < MaxMemoryMB * 9

\* ---------------------------------------------------------------- C6
\* MaxMemoryMB = 500 and engines of about 300MB: the first call get_session(0)
\* has loaded model 0, and the Observer's call get_session(1), the second
\* call, whose every memory sample was at most 0.8 x MaxMemoryMB, has loaded
\* model 1 and is returning
ScenarioAB ==
    /\ pc[Observer] = "ret"
    /\ op[Observer] = "get_session"
    /\ model_id[Observer] = 1
    /\ outcome[Observer] = "loaded"
    /\ entrySessions = <<0>>
    /\ request_count = 2
    /\ calm

C7_LoadedIsHit ==
    (/\ pc[Observer] = "ret"
     /\ op[Observer] = "get_session"
     /\ model_id[Observer] \in Range(entrySessions))
        => /\ outcome[Observer] = "hit"
           /\ result[Observer]
           /\ sessions # <<>>
           /\ sessions[Len(sessions)] = model_id[Observer]

\* ---------------------------------------------------------------- C8
\* worker t takes the test of line 153
PeriodicStep(t) == pc[t] = "g_periodic" /\ pc'[t] # "g_periodic"

\* worker t, in the periodic check, takes the sample of line 103 and the
\* tests of lines 105 and 111
PeriodicSampleStep(t) ==
    retpc[t] = "g_lookup" /\ pc[t] = "e_sample" /\ pc'[t] # "e_sample"

\* C8 as stated: a get_session call starts the periodic pass exactly when
\* request_count after its increment is a multiple of MemoryCheckInterval,
\* and the pass is unconditional: it evicts while its sample is above
\* 0.9 x MaxMemoryMB and an entry is left, whatever the watermark state.
C8_PeriodicUnconditional ==
    [][\A t \in Threads :
         /\ PeriodicStep(t) =>
               (pc'[t] = "e_sample" <=> request_count % MemoryCheckInterval = 0)
         /\ PeriodicSampleStep(t) =>
               (pc'[t] = "e_pop" <=>
                    (evict_memory'[t] * 10 > MaxMemoryMB * 9 /\ sessions # <<>>))]_vars

\* C8 amended: a get_session call starts the periodic check exactly when
\* request_count, read right after its increment, is a multiple of
\* MemoryCheckInterval; the check is not unconditional: it samples memory and
\* enters its eviction loop only if the sample is above MaxMemoryMB.
C8_PeriodicConditional ==
    [][\A t \in Threads :
         /\ PeriodicStep(t) =>
               /\ pc'[t] \in {"e_sample", "g_lookup"}
               /\ pc'[t] = "e_sample" <=> request_count % MemoryCheckInterval = 0
         /\ PeriodicSampleStep(t) =>
               /\ pc'[t] = "e_pop" <=>
                    (evict_memory'[t] > MaxMemoryMB /\ sessions # <<>>)
               /\ pc'[t] = "e_ret" <=> evict_memory'[t] <= MaxMemoryMB]_vars

\* the periodic check of the second call has sampled exactly MaxMemoryMB,
\* above both watermarks, and returns without evicting the loaded entries
C8_PeriodicCheckSkipped ==
    \E t \in Threads :
        /\ pc[t] = "e_ret"
        /\ retpc[t] = "g_lookup"
        /\ request_count = MemoryCheckInterval
        /\ evict_memory[t] = MaxMemoryMB
        /\ sessions # <<>>

\* ---------------------------------------------------------------- C9
\* C9: if YOLO() fails for id, the call reports the failure (None, after
\* logging the exception) and leaves no partial entry: afterwards id has no
\* session, no label map and no place in the recency order.
C9_NoPartialEntry ==
    \A t \in Threads :
        (pc[t] = "ret" /\ outcome[t] = "LoadFailure")
            => /\ ~result[t]
               /\ ~Loaded(model_id[t])
               /\ model_id[t] \notin label_names
               /\ model_id[t] \notin Range(lastUse)

\* get_session(id) has failed to build the engine while another model is cached
C9_LoadFailed ==
    \E t \in Threads :
        /\ pc[t] = "ret"
        /\ op[t] = "get_session"
        /\ outcome[t] = "LoadFailure"
        /\ model_id[t] \in ModelIds
        /\ sessions # <<>>

\* ---------------------------------------------------------------- C10
\* C10: a call for an id without a descriptor in the registry fails (None,
\* after logging the ValueError of add_session_label): no engine is
\* instantiated for it and no entry for it is inserted.  (A call made before
\* initialize_sessions finds no registry at all, and a periodic check that
\* another worker empties the cache under raises KeyError before the lookup:
\* these calls fail as well.)
C10_UnknownId ==
    /\ \A id \in Range(sessions) \cup label_names \cup Range(lastUse) : id \in ModelIds
    /\ \A t \in Threads :
          /\ pc[t] \in {"a_yolo", "a_insert", "a_labels"} => model_id[t] \in ModelIds
          /\ (pc[t] = "ret" /\ model_id[t] \notin ModelIds)
                => /\ ~result[t]
                   /\ outcome[t] \in {"UnknownId", "NoCatalog", "KeyError"}

\* get_session(2) has found no descriptor for id 2 and returns None
C10_UnknownIdRejected ==
    \E t \in Threads :
        /\ pc[t] = "ret"
        /\ op[t] = "get_session"
        /\ model_id[t] = 2
        /\ outcome[t] = "UnknownId"
        /\ ~result[t]

\* ---------------------------------------------------------------- C11
\* C11: over-capacity is never a request failure: when a check of a
\* get_session call for a known id has ended with the cache empty and its
\* sample still above MaxMemoryMB, the call goes on to build the requested
\* engine and, unless YOLO() itself fails or no catalog is attached, stores
\* it and returns it.
C11_OvercapacityNotFailure ==
    (/\ pc[Observer] = "ret"
     /\ op[Observer] = "get_session"
     /\ overcap
     /\ model_id[Observer] \in ModelIds
     /\ outcome[Observer] \notin {"LoadFailure", "NoCatalog"})
        => /\ outcome[Observer] = "loaded"
           /\ result[Observer]
           /\ sessions = <<model_id[Observer]>>
           /\ label_names = {model_id[Observer]}

\* a get_session(1) that began with model 0 loaded has emptied the cache
\* with memory still above MaxMemoryMB and returns the session of model 1
C11_LoadedAfterOvercapacity ==
    /\ pc[Observer] = "ret"
    /\ op[Observer] = "get_session"
    /\ overcap
    /\ entrySessions = <<0>>
    /\ model_id[Observer] = 1
    /\ result[Observer]
    /\ sessions = <<1>>

\* ---------------------------------------------------------------- C12
\* C12: get_cache_stats is a pure read: it changes neither the loaded set,
\* the recency order, the request counter nor any use of a session, it
\* reports self.sessions and self.request_count as they are, and two
\* consecutive calls with no other operation in between return the same
\* loaded_models and the same request_count.
C12_StatsPureRead ==
    [][stats' # <<>> =>
          /\ UNCHANGED <<sessions, label_names, models, request_count, lastUse, pc>>
          /\ stats'[1].loaded_models = sessions
          /\ stats'[1].request_count = request_count
          /\ stats # <<>> =>
                /\ stats'[1].loaded_models = stats[1].loaded_models
                /\ stats'[1].request_count = stats[1].request_count]_vars

\* get_cache_stats has reported two loaded models after two requests, with
\* two different memory samples
C12_StatsReported ==
    /\ stats # <<>>
    /\ stats[1].loaded_models = <<1, 0>>
    /\ stats[1].request_count = 2
    /\ stats[1].current_memory_mb = 300
    /\ stats[1].memory_usage_percent = 120

\* ---------------------------------------------------------------- C13
\* C13: the use of a loaded entry ends by a release(id) call on the cache,
\* which decreases the entry's outstanding uses by exactly one and changes
\* nothing else: not the loaded set, the label maps, the recency order or
\* the request counter.
C13_ReleaseDecrements ==
    [][\A id \in ModelIds :
         InUse(id)' < InUse(id) =>
            /\ \E t \in Threads : op[t] = "release" /\ model_id[t] = id
            /\ InUse(id)' = InUse(id) - 1
            /\ UNCHANGED <<sessions, label_names, request_count, lastUse>>]_vars

\* ---------------------------------------------------------------- C14
\* worker t is done with the session a successful get_session gave it: the
\* caller drops it (detect_objects) or model.predict has completed
EndsUse(t) ==
    /\ op[t] = "get_session"
    /\ \/ pc[t] = "predict"
       \/ pc[t] = "ret" /\ result[t]
    /\ pc'[t] = "idle"

\* C14: the detection pipeline calls release(id) exactly once for every
\* successful get_session(id), once it is done with the session.
C14_ReleasedOnce ==
    [][\A t \in Threads : EndsUse(t) => op'[t] = "release"]_vars

\* ---------------------------------------------------------------- C15
\* C15: lookup, recency update, insertion and eviction are indivisible for
\* concurrent callers: in every state another caller can see, an id has its
\* session, its label map and its place in the order, or none of them, and
\* no call for a known id fails because the dictionary changed between its
\* membership test and its next access (KeyError).
C15_Indivisible ==
    /\ \A id \in ModelIds : Loaded(id) <=> id \in label_names
    /\ \A t \in Threads :
          (pc[t] = "ret" /\ model_id[t] \in ModelIds) => outcome[t] # "KeyError"

\* ---------------------------------------------------------------- C16
\* C16: a caller that finds an instantiation of the same id in progress
\* waits for it and returns its result: no two workers are inside YOLO() for
\* the same id at the same time.
C16_WaitsForInFlight ==
    \A t, u \in Threads :
        (t # u /\ pc[t] = "a_yolo" /\ pc[u] = "a_yolo") => model_id[t] # model_id[u]

\* ---------------------------------------------------------------- C17
\* C17: engine instantiation is not done under a global lock: while a worker
\* is inside YOLO() for one id, every other worker can take its next step,
\* whatever call it is in and for whatever id.
C17_InstantiationDoesNotBlock ==
    \A t \in Threads :
        (\E u \in Threads \ {t} : pc[u] = "a_yolo") => ENABLED Step(t)

\* while one worker is inside YOLO() for model 0, which is not loaded yet,
\* another has missed, built and stored model 1 and returns its session
C17_OtherLoadCompleted ==
    \E t, u \in Threads :
        /\ pc[t] = "a_yolo"
        /\ model_id[t] = 0
        /\ pc[u] = "ret"
        /\ op[u] = "get_session"
        /\ model_id[u] = 1
        /\ outcome[u] = "loaded"
        /\ result[u]
        /\ sessions = <<1>>

\* ---------------------------------------------------------------- catalog load
\* the folders of the base path whose descriptor loads and validates
ValidNames == {n \in DirNames : kind[n] = "valid"}
\* the folders of the base path whose descriptor fails to load or validate
InvalidNames == {n \in DirNames : kind[n] = "invalid"}

\* C18: when the catalog load has succeeded, every id is the rank of its
\* subdirectory among the valid subdirectories in lexicographic name order,
\* whatever order the filesystem enumerated them in.
C18_SortedIds ==
    startup = "ok" =>
        \A id \in DOMAIN models_dict :
            id = Cardinality({n \in ValidNames : n < models_dict[id]})

C20_UnreadableIsFatal ==
    ~base_readable =>
        /\ startup \in {"init", "failed"}
        /\ models_dict = <<>>

\* startup failed on an unreadable base path that holds model folders
C20_StartupFailed ==
    /\ startup = "failed"
    /\ ~base_readable
    /\ ValidNames # {}

\* ---------------------------------------------------------------- C21
\* worker t removes an entry: popitem(last=False) of line 113
Evicts(t) == pc[t] = "e_pop" /\ pc'[t] = "e_dellabel"

\* C21: every step of an eviction pass removes the least recently used of
\* the entries no consumer is using: the entry removed is not in use, and
\* every loaded entry accessed less recently than it is in use.
C21_EvictsLeastRecentIdle ==
    [][\A t \in Threads :
         Evicts(t) =>
            /\ InUse(victim'[t][1]) = 0
            /\ \A k \in 1..Len(lastUse) :
                  lastUse[k] = victim'[t][1] =>
                     \A j \in 1..(k - 1) : InUse(lastUse[j]) > 0]_vars

\* ---------------------------------------------------------------- C22
\* worker t takes a memory sample in check_memory_and_evict and the tests
\* that follow it
PassSampleStep(t) ==
    /\ pc[t] \in {"e_sample", "e_resample"}
    /\ pc'[t] \notin {"e_sample", "e_resample"}

\* C22: when every loaded entry is in use, a sample above the low watermark
\* stops the pass: it removes nothing and raises nothing, and
\* check_memory_and_evict returns to its caller.
C22_StopsWhenAllInUse ==
    [][\A t \in Threads :
         (/\ PassSampleStep(t)
          /\ sessions # <<>>
          /\ \A id \in Range(sessions) : InUse(id) > 0)
            => pc'[t] \in {"e_warn", "e_ret"}]_vars

\* ---------------------------------------------------------------- C23
\* C23: an eviction pass samples memory again after each removal and never
\* removes an entry on a sample at or below 0.9 x MaxMemoryMB: the sample
\* that precedes a removal is above it, every removal is followed by a new
\* sample, and the first sample at or below it ends the pass, whatever is
\* still loaded.
C23_NoOverEviction ==
    [][\A t \in Threads :
         /\ Evicts(t) => evict_memory[t] * 10 > MaxMemoryMB * 9
         /\ (pc'[t] = "e_pop" /\ pc[t] # "e_pop") =>
               /\ pc[t] \in {"e_sample", "e_resample"}
               /\ evict_memory'[t] * 10 > MaxMemoryMB * 9
         /\ (pc[t] = "e_dellabel" /\ pc'[t] # "e_dellabel") => pc'[t] = "e_resample"
         /\ (pc[t] = "e_resample" /\ pc'[t] # "e_resample") =>
               /\ evict_memory'[t] \in MemLevels
               /\ evict_memory'[t] * 10 <= MaxMemoryMB * 9 => pc'[t] = "e_warn"]_vars

\* the periodic pass has removed an entry, sampled less than 0.9 x MaxMemoryMB
\* and stopped with an entry still loaded
C23_StoppedBelowTarget ==
    \E t \in Threads :
        /\ pc[t] = "e_warn"
        /\ retpc[t] = "g_lookup"
        /\ evict_memory[t] * 10 < MaxMemoryMB * 9
        /\ sessions # <<>>
        /\ label_names = Range(sessions)

\* ---------------------------------------------------------------- C24
\* C24: a get_session(id) miss whose YOLO() succeeds makes id loaded and the
\* most recently used entry, and returns the session stored for id: the
\* store of the new session is a store for an id that was not loaded and
\* leaves it last in self.sessions, with no other session built for id at
\* the same time, and the call then returns that session, not None.
C24_MissLoadsMostRecent ==
    [][\A t \in Threads :
         op[t] = "get_session" =>
            /\ Inserts(t) =>
                  /\ ~Loaded(model_id[t])
                  /\ sessions'[Len(sessions')] = model_id[t]
            /\ (pc[t] = "g_loaded" /\ pc'[t] = "ret") =>
                  /\ result'[t]
                  /\ model_id[t] \in label_names]_vars

\* ---------------------------------------------------------------- C25
\* worker t completes self.request_count += 1 of its get_session call
Counts(t) == pc[t] = "g_write" /\ pc'[t] = "g_periodic"

\* C25: self.request_count never decreases and counts the get_session calls
\* exactly, also when they overlap: the increment of every call raises it by
\* one, and no other step changes it.
C25_CountsEveryGet ==
    [][/\ request_count' >= request_count
       /\ \A t \in Threads : Counts(t) => request_count' = request_count + 1
       /\ request_count' # request_count => \E t \in Threads : Counts(t)]_vars

\* ---------------------------------------------------------------- C26
\* C26: a loaded entry is destroyed only by an eviction step: a session
\* leaves self.sessions only by the popitem of a pass, a label map leaves
\* self.label_names only by the del of the pass that has popped its session,
\* and once that pass has done both the victim has no session, no label map
\* and no place in the recency order.  No step of get_session,
\* get_label_names or get_cache_stats outside a pass removes either.
C26_DestroyedOnlyByEviction ==
    [][/\ \A id \in ModelIds :
            /\ (Loaded(id) /\ ~Loaded(id)') =>
                  \E t \in Threads : Evicts(t) /\ victim'[t] = <<id>>
            /\ (id \in label_names /\ id \notin label_names') =>
                  \E t \in Threads :
                      /\ pc[t] = "e_dellabel"
                      /\ pc'[t] = "e_resample"
                      /\ victim[t] = <<id>>
       /\ \A t \in Threads :
            (pc[t] = "e_dellabel" /\ pc'[t] # "e_dellabel") =>
                /\ victim[t][1] \notin Range(sessions')
                /\ victim[t][1] \notin label_names'
                /\ victim[t][1] \notin Range(lastUse')]_vars

\* a pass has removed the session and the label map of model 0 and left
\* model 1 as it was
C26_OneEvictedOneKept ==
    \E t \in Threads :
        /\ pc[t] = "e_resample"
        /\ entrySessions = <<0, 1>>
        /\ sessions = <<1>>
        /\ label_names = {1}
        /\ lastUse = <<1>>

\* ---------------------------------------------------------------- C27
\* C27: eviction is not terminal.  An eviction leaves nothing of its victim
\* behind, so the id is as it was before its first load; a get_session for a
\* known id that is not loaded takes the miss path and builds a new session,
\* whatever happened to the id before; and the session built is stored last
\* in self.sessions and returned.  Nothing in the cache counts or remembers
\* evictions, so the cycle can repeat without limit.
C27_EvictedCanReload ==
    [][\A t \in Threads :
         /\ (pc[t] = "e_dellabel" /\ pc'[t] # "e_dellabel") =>
               victim[t][1] \notin (Range(sessions') \cup label_names')
         /\ (pc[t] = "idle" /\ pc'[t] # "idle") =>
               \A id \in ModelIds : ~Loaded(id) => id \notin label_names
         /\ (pc[t] = "g_lookup" /\ pc'[t] # "g_lookup" /\ ~Loaded(model_id[t])) =>
               pc'[t] = "g_presample"
         /\ (/\ pc[t] = "a_lookup"
             /\ pc'[t] # "a_lookup"
             /\ op[t] = "get_session"
             /\ models
             /\ model_id[t] \in ModelIds) => pc'[t] = "a_yolo"
         /\ (Inserts(t) /\ op[t] = "get_session") =>
               sessions'[Len(sessions')] = model_id[t]
         /\ (pc[t] = "g_loaded" /\ pc'[t] = "ret") => result'[t]]_vars

\* model 0 was loaded as the Observer's get_session(0) began, the periodic
\* pass of that call has evicted it, and the call has built it again and
\* returns it as the most recently used entry
C27_ReloadedAfterEviction ==
    /\ pc[Observer] = "ret"
    /\ op[Observer] = "get_session"
    /\ model_id[Observer] = 0
    /\ entrySessions = <<0, 1>>
    /\ outcome[Observer] = "loaded"
    /\ result[Observer]
    /\ sessions = <<0>>
    /\ label_names = {0}

\* ---------------------------------------------------------------- C28
\* no cache call is under way: every worker is outside the cache or has its
\* result
Completed == \A t \in Threads : pc[t] \in {"idle", "ret", "predict"}

\* C28: after every completed get_session, get_label_names and eviction
\* pass, no id appears twice in self.sessions, and the ids with a session,
\* the ids with a label map and the ids of the recency order are the same.
C28_OneEntryPerId ==
    /\ Cardinality(Range(sessions)) = Len(sessions)
    /\ (Completed \/ \E t \in Threads : pc[t] \in {"e_warn", "e_ret"})
          => /\ Range(sessions) = label_names
             /\ Range(lastUse) = label_names

\* a get_session call has completed with two entries loaded
C28_TwoEntries ==
    /\ Completed
    /\ pc[Observer] = "ret"
    /\ op[Observer] = "get_session"
    /\ Len(sessions) = 2
    /\ label_names = {0, 1}

\* ---------------------------------------------------------------- C29
\* worker t enters add_session_label with a catalog attached and an id that
\* has a descriptor: YOLO(model_info.model_path) is what follows
EntersLoad(t) ==
    /\ pc[t] # "a_lookup"
    /\ pc'[t] = "a_lookup"
    /\ models
    /\ model_id[t] \in ModelIds

\* C29: whichever entry point builds an engine, the call has taken a memory
\* sample just before: add_session_label is entered from the pre-load sample
\* of line 167 or from the check_memory_and_evict that sample has started,
\* and from nowhere else.
C29_SampleBeforeLoad ==
    [][\A t \in Threads :
         EntersLoad(t) =>
            \/ pc[t] = "g_presample"
            \/ pc[t] \in {"e_warn", "e_ret"} /\ retpc[t] = "a_lookup"]_vars

\* ---------------------------------------------------------------- C30
\* C30: a get_session call that fails with UnknownId and is not a call the
\* periodic check fires on leaves the loaded entries as they were when it
\* began: nothing is evicted for an id that cannot be loaded.
C30_UnknownIdEvictsNothing ==
    (/\ pc[Observer] = "ret"
     /\ op[Observer] = "get_session"
     /\ outcome[Observer] = "UnknownId"
     /\ request_count % MemoryCheckInterval # 0)
        => sessions = entrySessions

\* ---------------------------------------------------------------- C31
\* worker t is inside check_memory_and_evict
InPass(t) == pc[t] \in {"e_sample", "e_pop", "e_dellabel", "e_resample"}

\* C31: every eviction pass terminates, whatever values the memory samples
\* take: a worker inside check_memory_and_evict leaves it, every iteration
\* of its loop makes self.sessions one entry shorter, and the entries a pass
\* removes are entries that were loaded when the call began.
C31_PassTerminates ==
    /\ \A t \in Threads : InPass(t) ~> ~InPass(t)
    /\ [][\A t \in Threads :
            Evicts(t) =>
               /\ Len(sessions') = Len(sessions) - 1
               /\ t = Observer => victim'[t][1] \in Range(entrySessions)]_vars

\* a pass that began with two entries has sampled more than MaxMemoryMB
\* every time, has removed both and has ended
C31_EmptiedAndEnded ==
    /\ pc[Observer] = "e_warn"
    /\ Len(entrySessions) = 2
    /\ sessions = <<>>
    /\ label_names = {}
    /\ evict_memory[Observer] > MaxMemoryMB

\* ---------------------------------------------------------------- C32
\* C32: a descriptor is admitted exactly when every required key is given,
\* its task is one of the three kinds and its model file exists next to
\* labels.yaml; a descriptor with a required key absent, model_path
\* included, is rejected as incomplete.
C32_AdmittedIffValid ==
    verdict # "none" =>
        /\ verdict = "admitted" <=>
              /\ \A f \in Fields : descriptor[f] # "absent"
              /\ descriptor["task"] = "given"
              /\ descriptor["model_path"] = "given"
        /\ (\E f \in Fields : descriptor[f] = "absent") => verdict = "Incomplete"

\* ---------------------------------------------------------------- C33
\* C33: the cache does not retry.  YOLO() is entered only from the
\* descriptor lookup of add_session_label, which a call enters once, from
\* its entry point; a YOLO() that fails ends the call at once with None for
\* the caller; and a call for a known id that reaches add_session_label
\* always goes on to YOLO(): no earlier failure is remembered.
C33_NoRetry ==
    [][\A t \in Threads :
         /\ (pc[t] = "a_yolo" /\ pc'[t] # "a_yolo") =>
               \/ pc'[t] = "a_insert"
               \/ /\ pc'[t] = "ret"
                  /\ outcome'[t] = "LoadFailure"
                  /\ ~result'[t]
         /\ (pc[t] # "a_yolo" /\ pc'[t] = "a_yolo") => pc[t] = "a_lookup"
         /\ (pc[t] # "a_lookup" /\ pc'[t] = "a_lookup") =>
               pc[t] \in {"g_presample", "e_warn", "e_ret", "l_lookup"}
         /\ (/\ pc[t] = "a_lookup"
             /\ pc'[t] # "a_lookup"
             /\ models
             /\ model_id[t] \in ModelIds) => pc'[t] = "a_yolo"]_vars

\* one get_session(0) has failed to build the engine and returned None, and
\* another get_session(0) has built it and returned it
C33_FailedThenLoaded ==
    \E t, u \in Threads :
        /\ pc[t] = "ret"
        /\ op[t] = "get_session"
        /\ model_id[t] = 0
        /\ outcome[t] = "LoadFailure"
        /\ ~result[t]
        /\ pc[u] = "ret"
        /\ op[u] = "get_session"
        /\ model_id[u] = 0
        /\ outcome[u] = "loaded"
        /\ result[u]
        /\ request_count = 2

\* ---------------------------------------------------------------- C34
\* C34: before initialize_sessions has attached a catalog, get_session and
\* get_label_names fail: every call that returns returns None, no worker is
\* building or storing an engine, and the cache is empty.
C34_NoCatalogNoLoad ==
    /\ ~models =>
          /\ sessions = <<>>
          /\ label_names = {}
          /\ \A t \in Threads :
                /\ pc[t] \notin {"a_yolo", "a_insert", "a_labels"}
                /\ pc[t] = "ret" => (~result[t] /\ outcome[t] = "NoCatalog")
    /\ \A t \in Threads : (pc[t] = "ret" /\ outcome[t] = "NoCatalog") => ~result[t]

\* a get_session and a get_label_names for a known id have both returned
\* None before any catalog was attached
C34_FailedBeforeCatalog ==
    \E t, u \in Threads :
        /\ ~models
        /\ pc[t] = "ret"
        /\ op[t] = "get_session"
        /\ model_id[t] \in ModelIds
        /\ outcome[t] = "NoCatalog"
        /\ pc[u] = "ret"
        /\ op[u] = "get_label_names"
        /\ model_id[u] \in ModelIds
        /\ outcome[u] = "NoCatalog"

\* ---------------------------------------------------------------- C35
\* worker t takes a step of get_label_names outside add_session_label
LabelStep(t) ==
    /\ op'[t] = "get_label_names"
    /\ pc[t] \in {"idle", "l_lookup", "l_intest", "l_move", "l_hit"}
    /\ pc'[t] # pc[t]

\* C35: a get_label_names(id) for a loaded id is an access for recency and
\* nothing more: it goes through the membership tests to move_to_end, which
\* puts id last and leaves the other entries in their order, and returns the
\* label map; no step of it changes the loaded set, the label maps or
\* request_count, and none enters check_memory_and_evict.
C35_LabelLookupMovesOnly ==
    [][\A t \in Threads :
         /\ LabelStep(t) =>
               /\ request_count' = request_count
               /\ Range(sessions') = Range(sessions)
               /\ label_names' = label_names
               /\ pc'[t] \in {"l_lookup", "l_intest", "l_move", "l_hit", "a_lookup", "ret"}
         /\ (LabelStep(t) /\ pc[t] # "idle"
                /\ Loaded(model_id[t]) /\ model_id[t] \in label_names) =>
               /\ pc[t] = "l_lookup" => pc'[t] = "l_intest"
               /\ pc[t] = "l_intest" => pc'[t] = "l_move"
               /\ pc[t] = "l_move" =>
                     /\ pc'[t] = "l_hit"
                     /\ sessions'[Len(sessions')] = model_id[t]
                     /\ SelectSeq(sessions', LAMBDA x : x # model_id[t])
                           = SelectSeq(sessions, LAMBDA x : x # model_id[t])
               /\ pc[t] = "l_hit" =>
                     /\ pc'[t] = "ret"
                     /\ result'[t]
                     /\ outcome'[t] = "hit"]_vars

\* get_label_names(0) has moved model 0 behind model 1 and is about to
\* return its label map, after the two get_session calls
C35_LabelLookupMoved ==
    \E t \in Threads :
        /\ pc[t] = "l_hit"
        /\ op[t] = "get_label_names"
        /\ model_id[t] = 0
        /\ sessions = <<1, 0>>
        /\ label_names = {0, 1}
        /\ request_count = MaxRequests

\* ---------------------------------------------------------------- C36
\* C36: the values of one get_cache_stats result agree with one another:
\* memory_usage_percent is current_memory_mb / max_memory_mb x 100 and
\* num_loaded_models is the length of loaded_models, also when two memory
\* samples differ.
C36_StatsConsistent ==
    stats # <<>> =>
        /\ stats[1].memory_usage_percent
              = (stats[1].current_memory_mb * 100) \div stats[1].max_memory_mb
        /\ stats[1].num_loaded_models = Len(stats[1].loaded_models)

====
